---- MODULE Spec2Model ----
(***************************************************************************)
(* Model of envejp.py: the EnvelopeGenerator form (five text fields, the   *)
(* verify / generate / save handlers, the transient PDF) and the vertical  *)
(* layout computed by create_pdf and adjust_start_position.                *)
(*                                                                         *)
(* Lengths are exact rationals of a point, scaled to integers: one unit is *)
(* 1/508 pt, so that reportlab's mm = 72/25.4 pt is 1440 units and a       *)
(* quarter of a glyph width is an integer.  A string is a sequence of      *)
(* one-character tokens.  A comparison of the layout is an exact tie only  *)
(* when a whole number of character steps equals the millimetre side:      *)
(* 18 steps of 20 pt are 127 mm, so the millimetre side would have to be   *)
(* a multiple of 127 mm, which no combination of the parameters used here  *)
(* gives.  The float comparisons of the program therefore decide as the    *)
(* exact ones do.                                                          *)
(***************************************************************************)
EXTENDS Integers, Sequences, FiniteSets, TLC

VARIABLES
    postal_code_var,    \* tk.StringVar of the postal code field
    address1_var,       \* tk.StringVar of address line 1
    address2_var,       \* tk.StringVar of address line 2
    company_var,        \* tk.StringVar of the company field
    recipient_var,      \* tk.StringVar of the recipient field
    font_available,     \* self.font_available
    mark_width,         \* stringWidth of the postal mark in "JapaneseFont", size 14
    generate_btn,       \* state of self.generate_btn: "disabled" / "normal"
    save_btn,           \* TRUE once self.save_btn is packed
    pdf_temp_path,      \* self.pdf_temp_path
    generated_filename, \* self.generated_filename
    files,              \* paths that exist in the temp directory
    saved,              \* destinations a PDF was copied to
    clock,              \* datetime.now(), in seconds
    running,            \* TRUE while root.mainloop() has not returned
    op,                 \* the handler that ran last
    dialog,             \* the messagebox the last handler showed
    status,             \* the add_status messages of the last handler
    create_pdf_called,  \* TRUE iff the last handler called create_pdf
    canvas,             \* the drawString calls of the last handler
    adj_y_start,        \* y_start passed to the last adjust_start_position call
    adj_result          \* what that call returned

vars == <<postal_code_var, address1_var, address2_var, company_var,
          recipient_var, font_available, mark_width, generate_btn, save_btn,
          pdf_temp_path, generated_filename, files, saved, clock, running,
          op, dialog, status, create_pdf_called, canvas, adj_y_start,
          adj_result>>

form == <<postal_code_var, address1_var, address2_var, company_var,
          recipient_var>>

session == <<generate_btn, save_btn, pdf_temp_path, generated_filename,
             files, saved, clock, running>>

(***************************************************************************)
(* Units and the layout parameters of create_pdf.                          *)
(***************************************************************************)
PT == 508     \* one point (reportlab's unit), in model units
mm == 1440    \* reportlab.lib.units.mm = 72/25.4 pt
A5 == <<148 * mm, 210 * mm>>

page_width == A5[2]
page_height == A5[1]
x_start == 150 * mm
y_start_param == 140 * mm
line_spacing == 12 * mm
char_spacing == 20 * PT
margin_bottom == 10 * mm
margin_top == 10 * mm
font_size == 14 * PT

(***************************************************************************)
(* Characters and strings.                                                 *)
(***************************************************************************)
PostalMark == "POSTAL_MARK"
Whitespace == {" "}
None == <<>>

RECURSIVE lstrip(_)
lstrip(s) ==
    IF s # <<>> /\ Head(s) \in Whitespace THEN lstrip(Tail(s)) ELSE s

RECURSIVE rstrip(_)
rstrip(s) ==
    IF s # <<>> /\ s[Len(s)] \in Whitespace
    THEN rstrip(SubSeq(s, 1, Len(s) - 1))
    ELSE s

strip(s) == rstrip(lstrip(s))

Max2(a, b) == IF a >= b THEN a ELSE b
Min2(a, b) == IF a <= b THEN a ELSE b

(***************************************************************************)
(* create_pdf: the active lines and the postal code read from the form.    *)
(***************************************************************************)
\* The active lines taken from the fields as typed, without strip().
active_lines_nostrip(a1, a2, co, re) ==
    (IF a1 # <<>> THEN <<a1>> ELSE <<>>)
    \o (IF a2 # <<>> THEN <<a2>> ELSE <<>>)
    \o (IF co # <<>> THEN <<co>> ELSE <<>>)
    \o (IF re # <<>> THEN <<re>> ELSE <<>>)

active_lines(a1, a2, co, re) ==
    (IF strip(a1) # <<>> THEN <<strip(a1)>> ELSE <<>>)
    \o (IF strip(a2) # <<>> THEN <<strip(a2)>> ELSE <<>>)
    \o (IF strip(co) # <<>> THEN <<strip(co)>> ELSE <<>>)
    \o (IF strip(re) # <<>> THEN <<strip(re)>> ELSE <<>>)

(***************************************************************************)
(* adjust_start_position.  The loop over enumerate(lines) is taken from    *)
(* index i (0-based) with the running max_height.                          *)
(***************************************************************************)
RECURSIVE max_height_loop(_, _, _, _)
max_height_loop(lines, i, max_height, cs) ==
    IF i >= Len(lines) THEN max_height
    ELSE LET line_height == Len(lines[i + 1]) * cs + (i + 1) * 10 * mm
         IN  max_height_loop(lines, i + 1, Max2(max_height, line_height), cs)

max_height_of(lines, postal_code, cs) ==
    max_height_loop(lines, 0, Len(postal_code) * cs, cs)

\* The correction without the min against y_start.
adjust_start_position_min(lines, postal_code, y_start, cs, ph, mb) ==
    LET max_height == max_height_of(lines, postal_code, cs)
    IN  IF y_start - max_height < mb
        THEN ph - (10 * mm) - max_height + y_start
        ELSE y_start

adjust_start_position(lines, postal_code, y_start, cs, ph, mb) ==
    LET max_height == max_height_of(lines, postal_code, cs)
        available_height == ph - mb - margin_top
    IN  IF y_start - max_height < mb
        THEN Min2(y_start, ph - (10 * mm) - max_height + y_start)
        ELSE y_start

(***************************************************************************)
(* create_pdf: the drawString calls.  A call is recorded with the loop     *)
(* that made it (col = -1: the postal code loop; col = i: line i) and the  *)
(* index j of the character.                                               *)
(***************************************************************************)
Glyph(col, j, x, y, ch) == [col |-> col, j |-> j, x |-> x, y |-> y, ch |-> ch]

\* The postal loop without the quarter-width shift of the postal mark.
draw_postal_noshift(postal_code, y_start, char_width) ==
    LET x_postal == x_start + line_spacing
    IN  [k \in 1..Len(postal_code) |->
            Glyph(-1, k - 1, x_postal,
                  y_start - (k - 1) * char_spacing, postal_code[k])]

draw_postal(postal_code, y_start, char_width) ==
    LET x_postal == x_start + line_spacing
    IN  [k \in 1..Len(postal_code) |->
            Glyph(-1, k - 1,
                  IF postal_code[k] = PostalMark
                  THEN x_postal - (char_width \div 4)
                  ELSE x_postal,
                  y_start - (k - 1) * char_spacing,
                  postal_code[k])]

\* Columns stepping to the right instead of to the left.
column_x_rightward(i) == x_start + (i * line_spacing)

column_x(i) == x_start - (i * line_spacing)

\* The character loop without the break at margin_bottom.
draw_line_nobreak(line, i, j, y) ==
    [k \in 1..(Len(line) - j) |->
        Glyph(i, j + k - 1, column_x(i),
              y - ((j + k - 1) * char_spacing), line[j + k])]

RECURSIVE draw_line(_, _, _, _)
draw_line(line, i, j, y) ==
    IF j >= Len(line) THEN <<>>
    ELSE LET current_y == y - (j * char_spacing)
         IN  IF current_y < margin_bottom THEN <<>>
             ELSE <<Glyph(i, j, column_x(i), current_y, line[j + 1])>>
                  \o draw_line(line, i, j + 1, y)

\* The line loop with the column's y offset doubled.
RECURSIVE draw_lines_deeper(_, _, _)
draw_lines_deeper(lines, i, y_start) ==
    IF i >= Len(lines) THEN <<>>
    ELSE LET y_offset == (i + 1) * 20 * mm
             y == y_start - y_offset
         IN  draw_line(lines[i + 1], i, 0, y)
             \o draw_lines_deeper(lines, i + 1, y_start)

RECURSIVE draw_lines(_, _, _)
draw_lines(lines, i, y_start) ==
    IF i >= Len(lines) THEN <<>>
    ELSE LET y_offset == (i + 1) * 10 * mm
             y == y_start - y_offset
         IN  draw_line(lines[i + 1], i, 0, y) \o draw_lines(lines, i + 1, y_start)

create_pdf_y_start(postal, a1, a2, co, re) ==
    adjust_start_position(active_lines(a1, a2, co, re), strip(postal),
                          y_start_param, char_spacing, page_height,
                          margin_bottom)

create_pdf_draws(postal, a1, a2, co, re, char_width) ==
    LET lines == active_lines(a1, a2, co, re)
        postal_code == strip(postal)
        y_start == create_pdf_y_start(postal, a1, a2, co, re)
    IN  draw_postal(postal_code, y_start, char_width)
        \o draw_lines(lines, 0, y_start)

(***************************************************************************)
(* generate_pdf: the file name.  re.sub keeps ASCII letters and digits,    *)
(* kana and kanji; of the model's characters it removes these.             *)
(***************************************************************************)
FilenameRemoved == {" ", ".", "-", PostalMark}

RECURSIVE re_sub(_)
re_sub(s) ==
    IF s = <<>> THEN <<>>
    ELSE IF Head(s) \in FilenameRemoved THEN re_sub(Tail(s))
         ELSE <<Head(s)>> \o re_sub(Tail(s))

company_clean(co) == SubSeq(re_sub(co), 1, Min2(10, Len(re_sub(co))))

filename(timestamp, co) == <<"envelope", timestamp, company_clean(co)>>

temp_path(name) == <<"tmp">> \o name

(***************************************************************************)
(* The state after __init__: setup_japanese_font has either registered     *)
(* "JapaneseFont" or not, create_interface has filled the fields with      *)
(* their default texts and disabled the generate button.                   *)
(***************************************************************************)
MarkWidths == {font_size \div 2, font_size}

DefaultPostal == <<PostalMark, "1", "6", "0", "-", "0", "0", "0", "7">>
DefaultAddress1 ==
    <<"tou", "kyou", "to", "shin", "juku", "ku", " ", "ara", "ki", "chou",
      "1", "1", "-", "1">>
DefaultAddress2 == <<"ha", "i", "mu", "ishi", "kawa", "8", "gou">>
DefaultCompany ==
    <<"su", "te", "fu", "xa", "n", " ", "bi", "chouon", "de", "xi", "chouon",
      "shi", "chouon", "L", "T", "D", ".">>
DefaultRecipient == <<"kei", "ri", "nakaguro", "fuji", "wara", "sama">>

InitUI ==
    /\ generate_btn = "disabled"
    /\ save_btn = FALSE
    /\ pdf_temp_path = None
    /\ generated_filename = None
    /\ files = {}
    /\ saved = {}
    /\ clock = 0
    /\ running = TRUE
    /\ op = "init"
    /\ dialog = "none"
    /\ status = <<<<"interface_initialised", 0>>,
                  <<IF font_available THEN "font_loaded" ELSE "no_font", 0>>>>
    /\ create_pdf_called = FALSE
    /\ canvas = <<>>
    /\ adj_y_start = 0
    /\ adj_result = 0

InitFont ==
    /\ font_available \in BOOLEAN
    /\ mark_width \in (IF font_available THEN MarkWidths ELSE {0})

Init ==
    /\ InitFont
    /\ postal_code_var = DefaultPostal
    /\ address1_var = DefaultAddress1
    /\ address2_var = DefaultAddress2
    /\ company_var = DefaultCompany
    /\ recipient_var = DefaultRecipient
    /\ InitUI

(***************************************************************************)
(* What a handler that draws nothing and shows no dialog leaves behind.    *)
(***************************************************************************)
NoLayout ==
    /\ create_pdf_called' = FALSE
    /\ canvas' = <<>>
    /\ adj_y_start' = 0
    /\ adj_result' = 0

Layout ==
    /\ create_pdf_called' = TRUE
    /\ canvas' = create_pdf_draws(postal_code_var, address1_var, address2_var,
                                  company_var, recipient_var, mark_width)
    /\ adj_y_start' = y_start_param
    /\ adj_result' = create_pdf_y_start(postal_code_var, address1_var,
                                        address2_var, company_var,
                                        recipient_var)

(***************************************************************************)
(* The user types into a field.                                            *)
(***************************************************************************)
Text(n) == [k \in 1..n |-> <<"a", "b", "c">>[((k - 1) % 3) + 1]]

PostalText(n) ==
    [k \in 1..n |-> IF k = 1 THEN PostalMark
                    ELSE <<"1", "6", "0">>[((k - 2) % 3) + 1]]

LongLineLen == 41

PostalEdits == {<<>>, <<"1", "6">>}
Address1Edits == {<<>>, Text(LongLineLen)}
Address2Edits == {<<>>}
CompanyEdits == {<<" ", ".">>}
RecipientEdits == {<<" ">>}

Edited ==
    /\ running
    /\ op' = "edit"
    /\ dialog' = "none"
    /\ status' = <<>>
    /\ NoLayout
    /\ UNCHANGED <<font_available, mark_width, session>>

edit_postal_code ==
    /\ \E v \in PostalEdits : postal_code_var' = v
    /\ Edited
    /\ UNCHANGED <<address1_var, address2_var, company_var, recipient_var>>

edit_address1 ==
    /\ \E v \in Address1Edits : address1_var' = v
    /\ Edited
    /\ UNCHANGED <<postal_code_var, address2_var, company_var, recipient_var>>

edit_address2 ==
    /\ \E v \in Address2Edits : address2_var' = v
    /\ Edited
    /\ UNCHANGED <<postal_code_var, address1_var, company_var, recipient_var>>

edit_company ==
    /\ \E v \in CompanyEdits : company_var' = v
    /\ Edited
    /\ UNCHANGED <<postal_code_var, address1_var, address2_var, recipient_var>>

edit_recipient ==
    /\ \E v \in RecipientEdits : recipient_var' = v
    /\ Edited
    /\ UNCHANGED <<postal_code_var, address1_var, address2_var, company_var>>

(***************************************************************************)
(* verify_address                                                          *)
(***************************************************************************)
verify_errors(postal, addr1, company, recipient) ==
    (IF postal = <<>> THEN <<"err_postal_required">> ELSE <<>>)
    \o (IF addr1 = <<>> THEN <<"err_address1_required">> ELSE <<>>)
    \o (IF company = <<>> THEN <<"err_company_required">> ELSE <<>>)
    \o (IF recipient = <<>> THEN <<"err_recipient_required">> ELSE <<>>)

RECURSIVE line_warnings(_, _)
line_warnings(lines, i) ==
    IF i > Len(lines) THEN <<>>
    ELSE (IF Len(lines[i]) > 35 THEN <<<<"warn_line_overflow", i>>>> ELSE <<>>)
         \o line_warnings(lines, i + 1)

verify_warnings(postal, addr1, addr2, company, recipient) ==
    (IF postal # <<>> /\ Head(postal) # PostalMark
     THEN <<<<"warn_postal_mark", 0>>>> ELSE <<>>)
    \o (IF addr1 # <<>> /\ Len(addr1) > 40
        THEN <<<<"warn_address1_long", Len(addr1)>>>> ELSE <<>>)
    \o line_warnings(<<addr1, addr2, company, recipient>>, 1)

verify_address ==
    /\ running
    /\ LET postal == strip(postal_code_var)
           addr1 == strip(address1_var)
           addr2 == strip(address2_var)
           company == strip(company_var)
           recipient == strip(recipient_var)
           errors == verify_errors(postal, addr1, company, recipient)
           warnings == verify_warnings(postal, addr1, addr2, company, recipient)
       IN  IF errors # <<>>
           THEN /\ status' = <<<<"verifying", 0>>>>
                             \o [k \in 1..Len(errors) |-> <<errors[k], 0>>]
                /\ generate_btn' = "disabled"
           ELSE /\ status' = <<<<"verifying", 0>>, <<"address_valid", 0>>>>
                             \o warnings
                /\ generate_btn' = "normal"
    /\ op' = "verify_address"
    /\ dialog' = "none"
    /\ NoLayout
    /\ UNCHANGED <<form, font_available, mark_width, save_btn, pdf_temp_path,
                   generated_filename, files, saved, clock, running>>

(***************************************************************************)
(* generate_pdf, the command of the generate button: Tk does not run the   *)
(* command of a disabled button.  create_pdf draws the page and c.save()   *)
(* writes the file, which the file system may refuse.                      *)
(***************************************************************************)
MaxClock == 1

\* generate_pdf without the font_available test.
generate_pdf_nofontcheck ==
    /\ running
    /\ generate_btn = "normal"
    /\ op' = "generate_pdf"
    /\ generated_filename' = filename(clock, company_var)
    /\ pdf_temp_path' = temp_path(filename(clock, company_var))
    /\ Layout
    /\ files' = files \cup {temp_path(filename(clock, company_var))}
    /\ status' = <<<<"generating", 0>>, <<"pdf_generated", 0>>>>
    /\ dialog' = "none"
    /\ save_btn' = TRUE
    /\ UNCHANGED <<form, font_available, mark_width, generate_btn, saved,
                   clock, running>>

generate_pdf ==
    /\ running
    /\ generate_btn = "normal"
    /\ op' = "generate_pdf"
    /\ IF ~font_available
       THEN /\ dialog' = "showerror_no_font"
            /\ status' = <<>>
            /\ NoLayout
            /\ UNCHANGED <<save_btn, pdf_temp_path, generated_filename, files>>
       ELSE /\ generated_filename' = filename(clock, company_var)
            /\ pdf_temp_path' = temp_path(filename(clock, company_var))
            /\ Layout
            /\ \E save_ok \in BOOLEAN :
                  IF save_ok
                  THEN /\ files' = files \cup
                                     {temp_path(filename(clock, company_var))}
                       /\ status' = <<<<"generating", 0>>,
                                      <<"pdf_generated", 0>>>>
                       /\ dialog' = "none"
                       /\ save_btn' = TRUE
                  ELSE /\ files' = files
                       /\ status' = <<<<"generating", 0>>,
                                      <<"err_generation", 0>>>>
                       /\ dialog' = "showerror_generate"
                       /\ save_btn' = save_btn
    /\ UNCHANGED <<form, font_available, mark_width, generate_btn, saved,
                   clock, running>>

(***************************************************************************)
(* save_pdf, the command of the save button, which exists on screen once   *)
(* a generation has succeeded.  asksaveasfilename returns "" on cancel;    *)
(* shutil.copy2 may raise.                                                 *)
(***************************************************************************)
SavePaths == {"dest_a"}

\* save_pdf dropping the transient file when the copy fails.
save_pdf_forgets ==
    /\ running
    /\ save_btn
    /\ op' = "save_pdf"
    /\ NoLayout
    /\ IF pdf_temp_path = None \/ pdf_temp_path \notin files
       THEN /\ dialog' = "showerror_no_pdf"
            /\ status' = <<>>
            /\ UNCHANGED <<saved, pdf_temp_path, generated_filename, files>>
       ELSE \E save_path \in SavePaths \cup {""}, copy_ok \in BOOLEAN :
              IF save_path = ""
              THEN /\ dialog' = "none"
                   /\ status' = <<>>
                   /\ UNCHANGED <<saved, pdf_temp_path, generated_filename,
                                  files>>
              ELSE IF copy_ok
              THEN /\ saved' = saved \cup {save_path}
                   /\ status' = <<<<"pdf_saved", 0>>>>
                   /\ dialog' = "showinfo_saved"
                   /\ UNCHANGED <<pdf_temp_path, generated_filename, files>>
              ELSE /\ saved' = saved
                   /\ status' = <<<<"err_save", 0>>>>
                   /\ dialog' = "showerror_save"
                   /\ pdf_temp_path' = None
                   /\ files' = files \ {pdf_temp_path}
                   /\ UNCHANGED generated_filename
    /\ UNCHANGED <<form, font_available, mark_width, generate_btn, save_btn,
                   clock, running>>

save_pdf ==
    /\ running
    /\ save_btn
    /\ op' = "save_pdf"
    /\ NoLayout
    /\ IF pdf_temp_path = None \/ pdf_temp_path \notin files
       THEN /\ dialog' = "showerror_no_pdf"
            /\ status' = <<>>
            /\ saved' = saved
       ELSE \E save_path \in SavePaths \cup {""}, copy_ok \in BOOLEAN :
              IF save_path = ""
              THEN /\ dialog' = "none"
                   /\ status' = <<>>
                   /\ saved' = saved
              ELSE IF copy_ok
              THEN /\ saved' = saved \cup {save_path}
                   /\ status' = <<<<"pdf_saved", 0>>>>
                   /\ dialog' = "showinfo_saved"
              ELSE /\ saved' = saved
                   /\ status' = <<<<"err_save", 0>>>>
                   /\ dialog' = "showerror_save"
    /\ UNCHANGED <<form, font_available, mark_width, generate_btn, save_btn,
                   pdf_temp_path, generated_filename, files, clock, running>>

(***************************************************************************)
(* run: mainloop returns when the window is closed, then the transient     *)
(* file is removed; os.remove may raise, which is swallowed.               *)
(***************************************************************************)
run ==
    /\ running
    /\ running' = FALSE
    /\ op' = "run"
    /\ dialog' = "none"
    /\ status' = <<>>
    /\ NoLayout
    /\ IF pdf_temp_path # None /\ pdf_temp_path \in files
       THEN \E remove_ok \in BOOLEAN :
              files' = IF remove_ok THEN files \ {pdf_temp_path} ELSE files
       ELSE files' = files
    /\ UNCHANGED <<form, font_available, mark_width, generate_btn, save_btn,
                   pdf_temp_path, generated_filename, saved, clock>>

(***************************************************************************)
(* Time passes between two events.                                         *)
(***************************************************************************)
tick ==
    /\ running
    /\ clock < MaxClock
    /\ clock' = clock + 1
    /\ UNCHANGED <<form, font_available, mark_width, generate_btn, save_btn,
                   pdf_temp_path, generated_filename, files, saved, running,
                   op, dialog, status, create_pdf_called, canvas,
                   adj_y_start, adj_result>>

Next ==
    \/ edit_postal_code
    \/ edit_address1
    \/ edit_address2
    \/ edit_company
    \/ edit_recipient
    \/ verify_address
    \/ generate_pdf
    \/ save_pdf
    \/ run
    \/ tick

Spec == Init /\ [][Next]_vars

(***************************************************************************)
(* The layout as a function of the form: every input of a bounded family   *)
(* of texts, then one call of create_pdf or of adjust_start_position.      *)
(***************************************************************************)
MaxPostalLen == 33
MaxLineLen == 19
MaxYStartStep == 3

PostalLens == {0, 1, 9, 19, 20, MaxPostalLen}
LineLens == {0, 14, 18, MaxLineLen}

PostalInputs ==
    {PostalText(n) : n \in PostalLens}
    \cup {<<" ">>, <<" ", PostalMark, "1", " ">>, <<"1", "6">>,
          <<"1", PostalMark, PostalMark>>}

LineInputs ==
    {Text(n) : n \in LineLens} \cup {<<" ">>, <<" ", "a", " ", "b", " ">>}

YStartInputs ==
    {y_start_param} \cup {k * 50 * mm : k \in 0..MaxYStartStep}

LayoutInit ==
    /\ font_available = TRUE
    /\ mark_width \in MarkWidths
    /\ postal_code_var \in PostalInputs
    /\ address1_var \in LineInputs
    /\ address2_var \in LineInputs
    /\ company_var \in LineInputs
    /\ recipient_var \in LineInputs
    /\ InitUI

call_create_pdf ==
    /\ op = "init"
    /\ op' = "create_pdf"
    /\ Layout
    /\ files' = files \cup {temp_path(filename(clock, company_var))}
    /\ UNCHANGED <<form, font_available, mark_width, generate_btn, save_btn,
                   pdf_temp_path, generated_filename, saved, clock, running,
                   dialog, status>>

call_adjust_start_position ==
    /\ op = "init"
    /\ op' = "adjust_start_position"
    /\ \E y_start \in YStartInputs :
          /\ adj_y_start' = y_start
          /\ adj_result' =
                adjust_start_position(
                    active_lines(address1_var, address2_var, company_var,
                                 recipient_var),
                    strip(postal_code_var), y_start, char_spacing,
                    page_height, margin_bottom)
    /\ UNCHANGED <<form, font_available, mark_width, session, dialog, status,
                   create_pdf_called, canvas>>

LayoutNext ==
    \/ call_create_pdf
    \/ call_adjust_start_position

LayoutSpec == LayoutInit /\ [][LayoutNext]_vars

(***************************************************************************)
(* Properties.  What they speak of, read off the state: the trimmed texts  *)
(* of the form, the draws of one loop, the extent of a column.             *)
(***************************************************************************)
Postal == strip(postal_code_var)
Fields == <<strip(address1_var), strip(address2_var), strip(company_var),
            strip(recipient_var)>>
NonBlank == SelectSeq(Fields, LAMBDA f : f # <<>>)
LayoutRan == create_pdf_called
AdjustRan == op \in {"create_pdf", "generate_pdf", "adjust_start_position"}
                /\ (op = "generate_pdf" => create_pdf_called)
ColumnDraws(c) == SelectSeq(canvas, LAMBDA g : g.col = c)
SetMax(S) == CHOOSE m \in S : \A n \in S : n <= m
Extent ==
    SetMax({Len(Postal) * char_spacing}
           \cup {Len(NonBlank[i]) * char_spacing + i * 10 * mm :
                    i \in 1..Len(NonBlank)})
LastY(i) ==
    adj_result - i * 10 * mm - (Len(NonBlank[i]) - 1) * char_spacing

\* C1: no glyph drawn by create_pdf, in the postal-code column or in an
\* address column, has y below margin_bottom.
C1_NoGlyphBelowMargin ==
    LayoutRan => \A k \in 1..Len(canvas) : canvas[k].y >= margin_bottom

\* C2: adjust_start_position returns a y that is greater than or equal to
\* the y_start it was passed.
C2_NeverBelowRequested ==
    AdjustRan => adj_result >= adj_y_start

\* C3: whenever max_height <= page_height - margin_bottom - margin_top,
\* adjust_start_position returns exactly the y_start it was given, for every
\* y_start.
C3_NonOverflowingUnchanged ==
    (AdjustRan /\ Extent <= page_height - margin_bottom - margin_top)
        => adj_result = adj_y_start

C3_Witness ==
    /\ op = "adjust_start_position"
    /\ Extent > 0
    /\ Extent <= page_height - margin_bottom - margin_top
    /\ adj_y_start - Extent < margin_bottom
    /\ adj_y_start # y_start_param
    /\ adj_result = adj_y_start

\* C4: an address column whose last character would land below
\* margin_bottom is drawn with fewer glyphs than the line has characters,
\* none of them below margin_bottom, and they are the leading characters of
\* the line, in order, in the line's own column.
C4_Truncation ==
    LayoutRan =>
        \A i \in 1..Len(NonBlank) :
            LastY(i) < margin_bottom =>
                LET drawn == ColumnDraws(i - 1)
                IN  /\ Len(drawn) < Len(NonBlank[i])
                    /\ \A k \in 1..Len(drawn) :
                          /\ drawn[k].y >= margin_bottom
                          /\ drawn[k].ch = NonBlank[i][k]
                          /\ drawn[k].j = k - 1
                          /\ drawn[k].x = x_start - (i - 1) * line_spacing
                    /\ \A k \in 1..Len(canvas) :
                          /\ canvas[k].col \in -1..(Len(NonBlank) - 1)
                          /\ canvas[k].col >= 0 =>
                                canvas[k].j < Len(NonBlank[canvas[k].col + 1])

C4_Witness ==
    /\ LayoutRan
    /\ \E i \in 1..Len(NonBlank) :
          /\ LastY(i) < margin_bottom
          /\ Len(ColumnDraws(i - 1)) > 0
          /\ Len(ColumnDraws(i - 1)) < Len(NonBlank[i])

\* C5: whenever generate_pdf reaches create_pdf, the postal code is
\* non-empty and address line 1, company and recipient are non-blank.
C5_ValidatedBeforeLayout ==
    (op = "generate_pdf" /\ create_pdf_called) =>
        /\ Postal # <<>>
        /\ Fields[1] # <<>>
        /\ Fields[3] # <<>>
        /\ Fields[4] # <<>>

\* C6: while no Japanese font is available, create_pdf is never invoked and
\* pdf_temp_path and generated_filename keep the values __init__ gave them:
\* no file name, no temp path, no file, no drawing.
C6_NoFontNoLayout ==
    ~font_available =>
        /\ ~create_pdf_called
        /\ canvas = <<>>
        /\ pdf_temp_path = None
        /\ generated_filename = None
        /\ files = {}
        /\ ~save_btn

C6_Witness ==
    /\ ~font_available
    /\ generate_btn = "normal"
    /\ op = "generate_pdf"
    /\ dialog = "showerror_no_font"

\* C7: a save_pdf whose copy fails reports the failure and changes nothing:
\* pdf_temp_path and generated_filename keep their values and the transient
\* file still exists, so that save_pdf can be run again; a cancelled dialog
\* changes nothing either.
C7_FailedSaveKeepsState ==
    [][(op' = "save_pdf" /\ dialog' \in {"showerror_save", "none"}) =>
          /\ pdf_temp_path' = pdf_temp_path
          /\ generated_filename' = generated_filename
          /\ files' = files
          /\ saved' = saved
          /\ pdf_temp_path' # None
          /\ pdf_temp_path' \in files'
          /\ save_btn' /\ running'
          /\ (dialog' = "showerror_save" => status' = <<<<"err_save", 0>>>>)
      ]_vars

C7_Witness ==
    /\ op = "save_pdf"
    /\ dialog = "showerror_save"
    /\ pdf_temp_path \in files
    /\ saved # {}

\* C8: the address columns drawn are exactly the non-blank trimmed fields
\* among address line 1, address line 2, company, recipient, in that order,
\* after the postal-code column, column i being the i-th of them.
C8_ColumnsAreActiveFields ==
    LayoutRan =>
        /\ {canvas[k].col : k \in 1..Len(canvas)} \ {-1}
              = 0..(Len(NonBlank) - 1)
        /\ \A k \in 1..Len(canvas) :
              canvas[k].col >= 0 =>
                  /\ canvas[k].ch = NonBlank[canvas[k].col + 1][canvas[k].j + 1]
                  /\ canvas[k].x = x_start - canvas[k].col * line_spacing
        /\ \A k \in 1..(Len(canvas) - 1) :
              canvas[k].col <= canvas[k + 1].col

\* C9: for columns i < j the x of column i is strictly greater than the x
\* of column j, and every postal-code digit is drawn at
\* x_start + line_spacing, which is the x of no address column.
C9_ColumnX ==
    LayoutRan =>
        LET ColumnXs(c) == {canvas[k].x : k \in {n \in 1..Len(canvas) :
                                                   canvas[n].col = c}}
            DigitXs == {canvas[k].x : k \in {n \in 1..Len(canvas) :
                            canvas[n].col = -1 /\ canvas[n].ch # PostalMark}}
        IN  /\ \A c \in 0..3, d \in 0..3 :
                  c < d => \A xc \in ColumnXs(c), xd \in ColumnXs(d) : xc > xd
            /\ \A c \in 0..3 : Cardinality(ColumnXs(c)) <= 1
            /\ DigitXs \subseteq {x_start + line_spacing}
            /\ \A c \in 0..3 : DigitXs \cap ColumnXs(c) = {}

C9_Witness ==
    /\ LayoutRan
    /\ \E k \in 1..Len(canvas) :
          canvas[k].col = -1 /\ canvas[k].ch # PostalMark
    /\ \E k \in 1..Len(canvas) : canvas[k].col = 3
    /\ \E k \in 1..Len(canvas) : canvas[k].col = 0

\* C10: the postal-code column has exactly one glyph per character of the
\* trimmed postal code; the k-th is at y = adjusted y_start - k *
\* char_spacing; a postal mark is at x_postal - width/4, width being its
\* positive measured width, left of any digit; any other character is at
\* x_postal.
C10_PostalColumn ==
    LayoutRan =>
        LET drawn == ColumnDraws(-1)
            x_postal == x_start + line_spacing
        IN  /\ Len(drawn) = Len(Postal)
            /\ drawn = SubSeq(canvas, 1, Len(Postal))
            /\ \A k \in 1..Len(drawn) :
                  /\ drawn[k].ch = Postal[k]
                  /\ drawn[k].y = adj_result - (k - 1) * char_spacing
                  /\ IF Postal[k] = PostalMark
                     THEN /\ mark_width > 0
                          /\ 4 * drawn[k].x = 4 * x_postal - mark_width
                          /\ drawn[k].x < x_postal
                     ELSE drawn[k].x = x_postal

C10_Witness ==
    /\ LayoutRan
    /\ Len(Postal) >= 20
    /\ Postal[1] = PostalMark
    /\ canvas[Len(Postal)].y < margin_bottom
    /\ canvas[1].x < canvas[2].x

\* C11: when the postal code and the four line fields are blank (empty or
\* whitespace only), create_pdf draws no glyph at all and
\* adjust_start_position returns y_start unchanged.
C11_AllBlankDrawsNothing ==
    (AdjustRan /\ Postal = <<>> /\ \A f \in 1..4 : Fields[f] = <<>>) =>
        /\ canvas = <<>>
        /\ adj_result = adj_y_start

C11_Witness ==
    /\ LayoutRan
    /\ postal_code_var = <<" ">>
    /\ address1_var = <<" ">>
    /\ address2_var = <<>>
    /\ company_var = <<" ">>
    /\ recipient_var = <<" ">>
    /\ canvas = <<>>
    /\ adj_result = y_start_param

C13_UntriggeredIsComplete ==
    (LayoutRan /\ adj_y_start - Extent >= margin_bottom) =>
        /\ adj_result = adj_y_start
        /\ Len(ColumnDraws(-1)) = Len(Postal)
        /\ \A i \in 1..Len(NonBlank) :
              /\ Len(ColumnDraws(i - 1)) = Len(NonBlank[i])
              /\ LastY(i) >= margin_bottom
        /\ \A k \in 1..Len(canvas) :
              /\ canvas[k].y >= margin_bottom
              /\ canvas[k].y >= adj_y_start - Extent

C13_Witness ==
    /\ LayoutRan
    /\ adj_y_start - Extent >= margin_bottom
    /\ Len(NonBlank) >= 3
    /\ Len(NonBlank[3]) >= 14
    /\ Len(Postal) >= 9
    /\ Len(ColumnDraws(2)) = Len(NonBlank[3])

\* C14: after run() returns (window closed), no transient PDF created by
\* generate_pdf during the session remains on disk, whatever the number of
\* generations.  A file that os.remove was asked to remove and could not
\* (the error run() swallows) is left aside: it is pdf_temp_path.
C14_NoTransientLeft ==
    ~running => files \subseteq {pdf_temp_path}

====
